---- MODULE Spec2Model ----
(***************************************************************************)
(* Job lifecycle of the analysis service (src/app.py).                     *)
(*                                                                         *)
(* The service runs on one asyncio event loop.  A request handler or a     *)
(* background task runs without interruption until it awaits real I/O, so  *)
(* every action below is one statement group of the source, and the        *)
(* variable `running` holds the task that has the event loop inside a      *)
(* synchronous section: request handlers and other tasks are served only   *)
(* when no task holds the loop.  The job record keeps every single write   *)
(* of the source as a state of its own.                                    *)
(*                                                                         *)
(* A handler's response is the variable `resp` until the server has sent   *)
(* it; nothing reads it, so sending it first loses no behaviour.           *)
(*                                                                         *)
(* The analysis callable is the environment: the one of the repository     *)
(* (src/analysis/run.py), or one a data scientist plugged in, which        *)
(* reports any fractions, then returns or raises.                          *)
(*                                                                         *)
(* Progress is counted in hundredths (0.3 is 30); the fractions the        *)
(* analysis callable reports are counted in tenths (0.5 is 5), so the hook *)
(* 0.3 + fraction * 0.6 is 30 + 6 * tenths.                                *)
(***************************************************************************)
EXTENDS Integers, Sequences, FiniteSets, TLC

\* ---- bounds ----
MaxJobs == 2
MaxFiles == 2
MaxReports == 2

JobIds == 1..MaxJobs

\* fractions (in tenths) an analysis callable passes to the progress hook
Fractions == {5, 10}

\* the declared outputs, in declaration order (get_output_files)
OutputKeys == <<"output1", "output2">>

Range(s) == {s[i] : i \in DOMAIN s}

get_output_files == [k \in Range(OutputKeys) |-> [name |-> k \o ".xlsx", required |-> TRUE]]

\* file names a download request may ask for
FileNames == {get_output_files[k].name : k \in Range(OutputKeys)} \cup {"other.bin"}

\* which analysis callable is bound to run_analysis: the one of the repository
\* (src/analysis/run.py) or another one a data scientist plugged in
Executors == {"repository", "pluggable"}

\* values a plugged-in callable may return
ReturnValues == {"completed", "results"}

\* texts of exceptions raised on the execution path
StoreErrors == {"store failed"}
\* str(e) of what the callable raises; it is "" for an exception raised without
\* arguments, as by a failing assert
ExecErrors == {"analysis error", ""}
TypeErrorText == "run_analysis() missing 3 required positional arguments"

VARIABLES
    jobs,       \* the job table: job id -> record (a Python dict, keys may be absent)
    task,       \* per job, the background task process_job(job_id, files)
    disk,       \* per job, the declared outputs present under OUTPUTS_DIR/job_id
    running,    \* the tasks (none or one) holding the event loop in a synchronous section
    resp,       \* the response of the request handler that ran last
    executor,   \* the callable bound to run_analysis
    client,     \* the requests one observed client has made so far, in order
    service,    \* startup_event and the periodic_health_check task
    outbox,     \* the requests sent to the orchestrator so far, with their outcomes
    standalone, \* a run of AnalysisOrchestrator.main (src/main.py)
    setup       \* a run of the setup script (src/setup_analysis.py)

vars == <<jobs, task, disk, running, resp, executor, client, service, outbox, standalone, setup>>

\* the state of the registration client
registration == <<service, outbox>>

\* the two programs of the repository that run outside the service
scripts == <<standalone, setup>>

\* ---- Python dict helpers ----
Has(d, k) == k \in DOMAIN d
Set(d, k, v) == [x \in DOMAIN d \cup {k} |-> IF x = k THEN v ELSE d[x]]
\* dict.get(k): an Optional, <<>> is None and <<v>> is the value
Get(d, k) == IF Has(d, k) THEN <<d[k]>> ELSE <<>>
GetDefault(d, k, dflt) == IF Has(d, k) THEN d[k] ELSE dflt
None == <<>>

NoResp == [op |-> "none"]
NoBody == [kind |-> "none"]

HTTPException(op, id, fn, code, detail) ==
    [op |-> op, job_id |-> id, filename |-> fn, code |-> code, detail |-> detail, body |-> NoBody]

Ok(op, id, fn, body) ==
    [op |-> op, job_id |-> id, filename |-> fn, code |-> 200, detail |-> "", body |-> body]

\* ---- the background task ----
\* as AwaitPoints, had process_job awaited between writing status and output_files
AwaitPointsBeforeOutputFiles == {"scheduled", "store_file", "set_message"}

\* positions at which the task is suspended (not yet started, or awaiting file I/O)
AwaitPoints == {"scheduled", "store_file"}

NoTask == [pc |-> "none"]

\* ---- the registration client ----
\* what a request to the orchestrator comes to: status 200, another status, or
\* an exception (connection refused, timeout)
Outcomes == {"200", "500", "error"}

SERVICE_NAME == "mirow-delivery-analysis-template"

\* SERVICE_INFO, the registration record
SERVICE_INFO ==
    [service_name |-> SERVICE_NAME, service_type |-> "analysis",
     health_endpoint |-> "/health", info_endpoint |-> "/info"]

\* POST {ORCHESTRATOR_URL}/api/v1/services/register, json=SERVICE_INFO
RegisterRequest(outcome) ==
    [url |-> "/api/v1/services/register", json |-> <<SERVICE_INFO>>, outcome |-> outcome]

\* POST {ORCHESTRATOR_URL}/api/v1/services/{SERVICE_NAME}/health-check, without a body
HealthCheckRequest(outcome) ==
    [url |-> "/api/v1/services/" \o SERVICE_NAME \o "/health-check", json |-> <<>>,
     outcome |-> outcome]

\* startup_event has returned and periodic_health_check sleeps
ServiceUp == [startup |-> "done", heartbeat |-> "sleep"]

\* the job table is empty and no task exists; neither script is run
InitJobs ==
    /\ jobs = << >>
    /\ task = [j \in JobIds |-> NoTask]
    /\ disk = [j \in JobIds |-> {}]
    /\ running = {}
    /\ resp = NoResp
    /\ executor \in Executors
    /\ client = <<>>
    /\ standalone = [pc |-> "none"]
    /\ setup = [pc |-> "none"]

\* the service is up and takes requests: startup has completed, here with the
\* orchestrator unreachable, and the health check task is in its sleep
Init ==
    /\ InitJobs
    /\ service = ServiceUp
    /\ outbox = <<RegisterRequest("error")>>

\* a request handler is served only when no task holds the event loop; the
\* server sends a handler's response before it runs anything else
Idle == running = {} /\ resp = NoResp

\* `job_id in jobs`
Known(id) == id \in DOMAIN jobs

\* as FreshIds, had the id been one that an earlier submission may have got
FreshIdsReused == JobIds

\* str(uuid.uuid4()): an id no earlier submission got; ids being opaque, the
\* model hands them out in increasing order
FreshIds == {id \in JobIds : id = Cardinality(DOMAIN jobs) + 1}

\* POST /analyze
analyze ==
    /\ Idle
    /\ \E id \in FreshIds, n \in 1..MaxFiles :
        /\ jobs' = [x \in DOMAIN jobs \cup {id} |->
                      IF x = id
                      THEN [status |-> "pending", progress |-> 0, message |-> "Job submitted"]
                      ELSE jobs[x]]
        /\ task' = [task EXCEPT ![id] =
                      [pc |-> "scheduled", files |-> n]]
        /\ resp' = Ok("analyze", id, "",
                      [kind |-> "AnalysisResponse", status |-> "pending", message |-> "Job submitted"])
    /\ UNCHANGED <<disk, running, executor>>

\* GET /status/{job_id}
get_status ==
    /\ Idle
    /\ \E id \in JobIds :
        resp' = IF ~Known(id)
                THEN HTTPException("get_status", id, "", 404, "Job not found")
                ELSE Ok("get_status", id, "",
                        [kind |-> "JobStatus",
                         status |-> jobs[id]["status"],
                         progress |-> Get(jobs[id], "progress"),
                         output_files |-> Get(jobs[id], "output_files")])
    /\ UNCHANGED <<jobs, task, disk, running, executor>>

\* as NotCompleted, had the test been `job["status"] in ("pending", "running")`
NotCompletedInProgress(job) == job["status"] \in {"pending", "running"}

\* `job["status"] != "completed"`, the readiness test of /results and /download
NotCompleted(job) == job["status"] # "completed"

\* as get_results, had it tested `jobs.get(job_id, {}).get("status") != "completed"` first
get_results_NotReadyFirst ==
    /\ Idle
    /\ \E id \in JobIds :
        resp' = IF ~Known(id) \/ NotCompleted(jobs[id])
                THEN HTTPException("get_results", id, "", 400, "Job not completed")
                ELSE Ok("get_results", id, "",
                        [kind |-> "results", job_id |-> id,
                         output_files |-> GetDefault(jobs[id], "output_files", <<>>)])
    /\ UNCHANGED <<jobs, task, disk, running, executor>>

\* GET /results/{job_id}
get_results ==
    /\ Idle
    /\ \E id \in JobIds :
        resp' = IF ~Known(id)
                THEN HTTPException("get_results", id, "", 404, "Job not found")
                ELSE IF NotCompleted(jobs[id])
                THEN HTTPException("get_results", id, "", 400, "Job not completed")
                ELSE Ok("get_results", id, "",
                        [kind |-> "results", job_id |-> id,
                         output_files |-> GetDefault(jobs[id], "output_files", <<>>)])
    /\ UNCHANGED <<jobs, task, disk, running, executor>>

\* `output_path.exists()` for OUTPUTS_DIR / job_id / filename
OutputExists(id, fn) == \E k \in disk[id] : get_output_files[k].name = fn

\* GET /download/{job_id}/{filename}
download_file ==
    /\ Idle
    /\ \E id \in JobIds, fn \in FileNames :
        resp' = IF ~Known(id)
                THEN HTTPException("download_file", id, fn, 404, "Job not found")
                ELSE IF NotCompleted(jobs[id])
                THEN HTTPException("download_file", id, fn, 400, "Job not completed")
                ELSE IF ~OutputExists(id, fn)
                THEN HTTPException("download_file", id, fn, 404, "File not found")
                ELSE Ok("download_file", id, fn, [kind |-> "FileResponse", path |-> <<id, fn>>])
    /\ UNCHANGED <<jobs, task, disk, running, executor>>

\* as cancel_job, had it refused a job that is cancelled already
cancel_job_RejectRepeat ==
    /\ Idle
    /\ \E id \in JobIds :
        IF ~Known(id)
        THEN /\ resp' = HTTPException("cancel_job", id, "", 404, "Job not found")
             /\ jobs' = jobs
        ELSE IF jobs[id]["status"] = "cancelled"
        THEN /\ resp' = HTTPException("cancel_job", id, "", 400, "Job already cancelled")
             /\ jobs' = jobs
        ELSE /\ jobs' = [jobs EXCEPT ![id] = Set(@, "status", "cancelled")]
             /\ resp' = Ok("cancel_job", id, "", [kind |-> "message", message |-> "Job cancelled"])
    /\ UNCHANGED <<task, disk, running, executor>>

\* DELETE /jobs/{job_id}
cancel_job ==
    /\ Idle
    /\ \E id \in JobIds :
        IF ~Known(id)
        THEN /\ resp' = HTTPException("cancel_job", id, "", 404, "Job not found")
             /\ jobs' = jobs
        ELSE /\ jobs' = [jobs EXCEPT ![id] = Set(@, "status", "cancelled")]
             /\ resp' = Ok("cancel_job", id, "", [kind |-> "message", message |-> "Job cancelled"])
    /\ UNCHANGED <<task, disk, running, executor>>

\* the handler's return value (or its HTTPException) goes out to the client
send_response ==
    /\ resp # NoResp
    /\ resp' = NoResp
    /\ UNCHANGED <<jobs, task, disk, running, executor, client, registration, scripts>>

\* ---- process_job(job_id, files), one action per statement group ----
\* the task of job j is at position p and may take its next step
At(j, p) ==
    /\ resp = NoResp
    /\ task[j].pc = p
    /\ running = IF p \in AwaitPoints THEN {} ELSE {j}

\* the task moves to position p; it gives up the event loop when it suspends,
\* and when it ends its locals are gone
Goto(j, p) ==
    /\ task' = [task EXCEPT ![j] = IF p = "done" THEN [pc |-> "done"] ELSE [@ EXCEPT !.pc = p]]
    /\ running' = IF p \in AwaitPoints \cup {"done"} THEN {} ELSE {j}

\* an exception is raised inside the try block of process_job: control is in
\* the except block with e bound, the locals of the steps are gone
Raise(j, text) ==
    /\ task' = [task EXCEPT ![j] = [pc |-> "except", exc |-> text]]
    /\ running' = {j}

\* as Write, had the jobs shared one record
Write_Shared(j, k, v) == jobs' = [x \in DOMAIN jobs |-> Set(jobs[x], k, v)]

\* job[k] = v, for job = jobs[job_id]
Write(j, k, v) == jobs' = [jobs EXCEPT ![j] = Set(@, k, v)]
Write2(j, k1, v1, k2, v2) == jobs' = [jobs EXCEPT ![j] = Set(Set(@, k1, v1), k2, v2)]

\* as process_job_start, had it left the status for step 1 to set
process_job_start_StatusLater(j) ==
    /\ At(j, "scheduled")
    /\ Write(j, "message", "Starting analysis workflow...")
    /\ Goto(j, "store_begin")
    /\ UNCHANGED <<disk, resp, executor, client, registration, scripts>>

\* process_job: job["status"] = "running"; job["message"] = ...
process_job_start(j) ==
    /\ At(j, "scheduled")
    /\ Write2(j, "status", "running", "message", "Starting analysis workflow...")
    /\ Goto(j, "store_begin")
    /\ UNCHANGED <<disk, resp, executor, client, registration, scripts>>

\* step1_store_files up to its first await
step1_begin(j) ==
    /\ At(j, "store_begin")
    /\ Write2(j, "message", "Storing input files...", "progress", 10)
    /\ Goto(j, "store_file")
    /\ UNCHANGED <<disk, resp, executor, client, registration, scripts>>

\* one upload is read and written (aiofiles); the task is resumed afterwards
step1_store_file(j) ==
    /\ At(j, "store_file")
    /\ IF task[j].files > 1
       THEN /\ task' = [task EXCEPT ![j].files = @ - 1]
            /\ running' = {}
       ELSE Goto(j, "store_end")
    /\ UNCHANGED <<jobs, disk, resp, executor, client, registration, scripts>>

\* reading or writing an upload raises
step1_store_raises(j) ==
    /\ At(j, "store_file")
    /\ \E e \in StoreErrors : Raise(j, e)
    /\ UNCHANGED <<jobs, disk, resp, executor, client, registration, scripts>>

\* step1_store_files after the loop
step1_end(j) ==
    /\ At(j, "store_end")
    /\ Write2(j, "progress", 30, "message", "Input files stored")
    /\ Goto(j, "exec_begin")
    /\ UNCHANGED <<disk, resp, executor, client, registration, scripts>>

\* step2_execute_analysis before the call
step2_begin(j) ==
    /\ At(j, "exec_begin")
    /\ Write2(j, "message", "Executing analysis...", "progress", 30)
    /\ Goto(j, "exec_call")
    /\ UNCHANGED <<disk, resp, executor, client, registration, scripts>>

\* run_analysis(job_id, progress_callback=progress_callback): the callable of
\* src/analysis/run.py takes four positional arguments, so binding one raises
step2_call(j) ==
    /\ At(j, "exec_call")
    /\ IF executor = "repository"
       THEN Raise(j, TypeErrorText)
       ELSE /\ task' = [task EXCEPT ![j] = [pc |-> "executing", reports |-> 0]]
            /\ running' = {j}
    /\ UNCHANGED <<jobs, disk, resp, executor, client, registration, scripts>>

\* Map analysis progress (0-1) to job progress (0.3-0.9)
job_progress(fraction) == 30 + fraction * 6

\* the callable calls the hook with a fraction of the set fractions
progress_callback_with(j, fractions) ==
    /\ At(j, "executing")
    /\ task[j].reports < MaxReports
    /\ \E f \in fractions :
        Write2(j, "progress", job_progress(f), "message", "progress report")
    /\ task' = [task EXCEPT ![j].reports = @ + 1]
    /\ UNCHANGED <<disk, running, resp, executor, client, registration, scripts>>

\* the callable calls the hook
progress_callback(j) == progress_callback_with(j, Fractions)

\* the callable returns; `if status != "completed": raise Exception(...)`.
\* One that returns "completed" has written some of the declared outputs; one
\* that returns its results dictionary, as the template's callables do, writes
\* results.json, processed_data.csv and insights.txt, none of them declared
run_analysis_returns(j) ==
    /\ At(j, "executing")
    /\ \E v \in ReturnValues :
        IF v # "completed"
        THEN /\ Raise(j, "Analysis failed with status: " \o v)
             /\ disk' = disk
        ELSE /\ Goto(j, "exec_end")
             /\ \E outs \in SUBSET Range(OutputKeys) : disk' = [disk EXCEPT ![j] = outs]
    /\ UNCHANGED <<jobs, resp, executor, client, registration, scripts>>

\* the callable raises
run_analysis_raises(j) ==
    /\ At(j, "executing")
    /\ \E e \in ExecErrors : Raise(j, e)
    /\ UNCHANGED <<jobs, disk, resp, executor, client, registration, scripts>>

\* step2_execute_analysis after the call
step2_end(j) ==
    /\ At(j, "exec_end")
    /\ Write2(j, "progress", 90, "message", "Analysis completed")
    /\ Goto(j, "extract_begin")
    /\ UNCHANGED <<disk, resp, executor, client, registration, scripts>>

\* step3_extract_outputs before the scan
step3_begin(j) ==
    /\ At(j, "extract_begin")
    /\ Write2(j, "message", "Extracting outputs...", "progress", 90)
    /\ Goto(j, "extract_scan")
    /\ UNCHANGED <<disk, resp, executor, client, registration, scripts>>

\* the declared outputs that exist, in declaration order
RECURSIVE Existing(_, _)
Existing(keys, present) ==
    IF keys = <<>> THEN <<>>
    ELSE (IF Head(keys) \in present THEN <<Head(keys)>> ELSE <<>>) \o Existing(Tail(keys), present)

\* as step3_scan, had it failed the job for a required output that is absent
step3_scan_required(j) ==
    /\ At(j, "extract_scan")
    /\ IF \E k \in Range(OutputKeys) : get_output_files[k].required /\ k \notin disk[j]
       THEN Raise(j, "Required output missing")
       ELSE /\ task' = [task EXCEPT ![j] = [pc |-> "extract_end",
                                             output_files |-> Existing(OutputKeys, disk[j])]]
            /\ running' = {j}
    /\ UNCHANGED <<jobs, disk, resp, executor, client, registration, scripts>>

\* step3_extract_outputs: the loop over get_output_files(job_id)
step3_scan(j) ==
    /\ At(j, "extract_scan")
    /\ task' = [task EXCEPT ![j] = [pc |-> "extract_end",
                                     output_files |-> Existing(OutputKeys, disk[j])]]
    /\ running' = {j}
    /\ UNCHANGED <<jobs, disk, resp, executor, client, registration, scripts>>

\* step3_extract_outputs after the scan
step3_end(j) ==
    /\ At(j, "extract_end")
    /\ Write2(j, "progress", 100, "message", "Outputs extracted")
    /\ Goto(j, "set_status")
    /\ UNCHANGED <<disk, resp, executor, client, registration, scripts>>

\* process_job: job["status"] = "completed"
process_job_completed(j) ==
    /\ At(j, "set_status")
    /\ Write(j, "status", "completed")
    /\ Goto(j, "set_message")
    /\ UNCHANGED <<disk, resp, executor, client, registration, scripts>>

\* process_job: job["message"] = "Analysis completed successfully"
process_job_message(j) ==
    /\ At(j, "set_message")
    /\ Write(j, "message", "Analysis completed successfully")
    /\ Goto(j, "set_output_files")
    /\ UNCHANGED <<disk, resp, executor, client, registration, scripts>>

\* process_job: job["output_files"] = output_files
process_job_output_files(j) ==
    /\ At(j, "set_output_files")
    /\ Write(j, "output_files", task[j].output_files)
    /\ Goto(j, "done")
    /\ UNCHANGED <<disk, resp, executor, client, registration, scripts>>

\* as process_job_failed, had the task ended on the exception with the record as it was
process_job_failed_Unhandled(j) ==
    /\ At(j, "except")
    /\ jobs' = jobs
    /\ Goto(j, "done")
    /\ UNCHANGED <<disk, resp, executor, client, registration, scripts>>

\* except Exception as e: job["status"] = "failed"
process_job_failed(j) ==
    /\ At(j, "except")
    /\ Write(j, "status", "failed")
    /\ Goto(j, "set_error")
    /\ UNCHANGED <<disk, resp, executor, client, registration, scripts>>

\* job["error"] = str(e)
process_job_error(j) ==
    /\ At(j, "set_error")
    /\ Write(j, "error", task[j].exc)
    /\ Goto(j, "set_failed_message")
    /\ UNCHANGED <<disk, resp, executor, client, registration, scripts>>

\* job["message"] = f"Analysis failed: {str(e)}"
process_job_failed_message(j) ==
    /\ At(j, "set_failed_message")
    /\ Write(j, "message", "Analysis failed: " \o task[j].exc)
    /\ Goto(j, "done")
    /\ UNCHANGED <<disk, resp, executor, client, registration, scripts>>

process_job(j) ==
    \/ process_job_start(j)
    \/ step1_begin(j)
    \/ step1_store_file(j)
    \/ step1_store_raises(j)
    \/ step1_end(j)
    \/ step2_begin(j)
    \/ step2_call(j)
    \/ progress_callback(j)
    \/ run_analysis_returns(j)
    \/ run_analysis_raises(j)
    \/ step2_end(j)
    \/ step3_begin(j)
    \/ step3_scan(j)
    \/ step3_end(j)
    \/ process_job_completed(j)
    \/ process_job_message(j)
    \/ process_job_output_files(j)
    \/ process_job_failed(j)
    \/ process_job_error(j)
    \/ process_job_failed_message(j)

Next ==
    \/ analyze /\ UNCHANGED <<client, registration, scripts>>
    \/ get_status /\ UNCHANGED <<client, registration, scripts>>
    \/ get_results /\ UNCHANGED <<client, registration, scripts>>
    \/ download_file /\ UNCHANGED <<client, registration, scripts>>
    \/ cancel_job /\ UNCHANGED <<client, registration, scripts>>
    \/ send_response
    \/ \E j \in JobIds : process_job(j)

Spec == Init /\ [][Next]_vars

\* the event loop runs every task that is ready (a task is ready again and again
\* while requests are served in between) and sends every response; the
\* callable, once called, returns or raises
Fairness ==
    /\ WF_vars(send_response)
    /\ \A j \in JobIds : SF_vars(process_job(j))

SpecLive == Spec /\ Fairness

\* the first submission
FirstSubmit == jobs = <<>> /\ analyze

\* ---- the progress hook on any fraction ----
\* fractions a callable may pass to the hook, in tenths: the hook takes a float
\* and tests nothing, so they include values below 0 and above 1
AnyFractions == {-10, 0, 5, 10, 15}

NextHook ==
    \/ FirstSubmit /\ UNCHANGED <<client, registration, scripts>>
    \/ get_status /\ UNCHANGED <<client, registration, scripts>>
    \/ cancel_job /\ UNCHANGED <<client, registration, scripts>>
    \/ send_response
    \/ \E j \in JobIds : process_job(j)
    \/ \E j \in JobIds : progress_callback_with(j, AnyFractions)

\* one job whose callable may report any fraction
SpecHook == Init /\ [][NextHook]_vars

\* ---- AnalysisOrchestrator.main, the standalone workflow (src/main.py) ----
\* an exception is raised inside the try block of main
MainRaise(text) ==
    standalone' = [standalone EXCEPT !.pc = "except", !.error = text]

\* main is called: step 1 begins (the directories are made) and asks the
\* orchestrator for the job data; `files` is the number of input files the job
\* data will list
main_begin ==
    /\ standalone.pc = "none"
    /\ \E n \in 0..MaxFiles :
        standalone' = [pc |-> "job_data", steps |-> <<"receive_files">>, job_data |-> "pending",
                       files |-> n, downloads |-> <<>>, status |-> "", error |-> "",
                       result |-> <<>>]
    /\ UNCHANGED <<jobs, task, disk, running, resp, executor, client, registration, setup>>

\* _step1_receive_files: the response to the job data request, or its failure
main_step1_job_data ==
    /\ standalone.pc = "job_data"
    /\ \E o \in Outcomes :
        IF o = "200"
        THEN standalone' = [standalone EXCEPT
                                !.job_data = o,
                                !.pc = IF standalone.files = 0 THEN "execute" ELSE "download"]
        ELSE standalone' = [standalone EXCEPT
                                !.job_data = o,
                                !.pc = "except",
                                !.error = IF o = "error" THEN "connection failed"
                                          ELSE "Failed to get job data: " \o o]
    /\ UNCHANGED <<jobs, task, disk, running, resp, executor, client, registration, setup>>

\* as main_step1_download, had a file that cannot be downloaded failed the workflow
main_step1_download_strict ==
    /\ standalone.pc = "download"
    /\ \E o \in Outcomes :
        IF o # "200"
        THEN standalone' = [standalone EXCEPT
                                !.downloads = Append(@, o),
                                !.pc = "except", !.error = "download failed"]
        ELSE standalone' = [standalone EXCEPT
                                !.downloads = Append(@, o),
                                !.files = @ - 1,
                                !.pc = IF standalone.files = 1 THEN "execute" ELSE "download"]
    /\ UNCHANGED <<jobs, task, disk, running, resp, executor, client, registration, setup>>

\* _step1_receive_files: one input file: a 200 response is written to the
\* inputs folder, another status is printed, a failure of the request raises;
\* `downloads` keeps what each file request came to
main_step1_download ==
    /\ standalone.pc = "download"
    /\ \E o \in Outcomes :
        IF o = "error"
        THEN standalone' = [standalone EXCEPT
                                !.downloads = Append(@, o),
                                !.pc = "except", !.error = "connection failed"]
        ELSE standalone' = [standalone EXCEPT
                                !.downloads = Append(@, o),
                                !.files = @ - 1,
                                !.pc = IF standalone.files = 1 THEN "execute" ELSE "download"]
    /\ UNCHANGED <<jobs, task, disk, running, resp, executor, client, registration, setup>>

\* _step2_execute_analysis: run_analysis(self.job_id, progress_callback=...)
\* returns a value or raises
main_step2_execute_analysis ==
    /\ standalone.pc = "execute"
    /\ \/ /\ executor = "repository"
          /\ standalone' = [standalone EXCEPT !.steps = Append(@, "execute_analysis"),
                                                !.pc = "except", !.error = TypeErrorText]
       \/ /\ executor # "repository"
          /\ \/ \E v \in ReturnValues :
                    standalone' = [standalone EXCEPT !.steps = Append(@, "execute_analysis"),
                                                     !.pc = "check", !.status = v]
             \/ \E e \in ExecErrors :
                    standalone' = [standalone EXCEPT !.steps = Append(@, "execute_analysis"),
                                                     !.pc = "except", !.error = e]
    /\ UNCHANGED <<jobs, task, disk, running, resp, executor, client, registration, setup>>

\* main: `if status != "completed": raise Exception(...)`
main_check_status ==
    /\ standalone.pc = "check"
    /\ IF standalone.status # "completed"
       THEN MainRaise("Analysis failed with status: " \o standalone.status)
       ELSE standalone' = [standalone EXCEPT !.pc = "extract"]
    /\ UNCHANGED <<jobs, task, disk, running, resp, executor, client, registration, setup>>

\* _step3_extract_outputs and the return of main
main_step3_extract_outputs ==
    /\ standalone.pc = "extract"
    /\ \E present \in SUBSET Range(OutputKeys) :
        standalone' = [standalone EXCEPT
                            !.steps = Append(@, "extract_outputs"),
                            !.pc = "returned",
                            !.result = [status |-> "completed",
                                        output_files |-> Existing(OutputKeys, present)]]
    /\ UNCHANGED <<jobs, task, disk, running, resp, executor, client, registration, setup>>

\* main: except Exception as e: return {"status": "failed", "error": str(e)}
main_except ==
    /\ standalone.pc = "except"
    /\ standalone' = [standalone EXCEPT
                            !.pc = "returned",
                            !.result = [status |-> "failed", error |-> standalone.error]]
    /\ UNCHANGED <<jobs, task, disk, running, resp, executor, client, registration, setup>>

NextMain ==
    \/ main_begin
    \/ main_step1_job_data
    \/ main_step1_download
    \/ main_step2_execute_analysis
    \/ main_check_status
    \/ main_step3_extract_outputs
    \/ main_except

\* one run of the standalone workflow
SpecMain == Init /\ [][NextMain]_vars

\* ---- the setup script (src/setup_analysis.py) ----
\* the length of the list of connected services the orchestrator answers with
MaxServices == 2

\* values of ADMIN_TOKEN in the environment: unset, empty, set
Tokens == {<<>>, <<"">>, <<"jwt">>}

\* entries of the list of connected services: this service, this service
\* without the fields the check prints, another service
ServiceEntries ==
    {[service_name |-> SERVICE_NAME, health_status |-> "healthy", base_url |-> "http://service"],
     [service_name |-> SERVICE_NAME],
     [service_name |-> "other", health_status |-> "healthy", base_url |-> "http://other"]}

\* sequences over set s of length at most n
RECURSIVE SeqsUpTo(_, _)
SeqsUpTo(s, n) ==
    IF n = 0 THEN {<<>>}
    ELSE SeqsUpTo(s, n - 1) \cup {Append(q, x) : q \in {t \in SeqsUpTo(s, n - 1) : Len(t) = n - 1}, x \in s}

\* what GET /api/v1/services/connected comes to
CheckResponses ==
    {[status |-> "200", services |-> l] : l \in SeqsUpTo(ServiceEntries, MaxServices)}
        \cup {[status |-> "500"], [status |-> "error"]}

\* what POST /api/v1/analysis/ comes to
CreateResponses ==
    {[status |-> "200", body |-> [id |-> "a1", name |-> SERVICE_NAME, version |-> "1.0.0"]],
     [status |-> "200", body |-> [name |-> SERVICE_NAME]],
     [status |-> "400", body |-> [detail |-> "Analysis already exists"]],
     [status |-> "400", body |-> [detail |-> "Invalid input requirements"]],
     [status |-> "400", body |-> [message |-> "Bad request"]],
     [status |-> "500"], [status |-> "error"]}

\* `"already exists" in error_data.get("detail", "")`
AlreadyExists(body) == Has(body, "detail") /\ body["detail"] \in {"Analysis already exists"}

\* the entries of list l for this service, in order
RECURSIVE Matching(_)
Matching(l) ==
    IF l = <<>> THEN <<>>
    ELSE (IF Head(l)["service_name"] = SERVICE_NAME THEN <<Head(l)>> ELSE <<>>) \o Matching(Tail(l))

\* the return value of check_service_registration for response r: True when the
\* status is 200 and the first matching entry can be printed; a missing key
\* raises KeyError, which returns False as every exception does
check_service_registration(r) ==
    /\ r.status = "200"
    /\ Matching(r.services) # <<>>
    /\ Has(Head(Matching(r.services)), "health_status")
    /\ Has(Head(Matching(r.services)), "base_url")

\* as create_analysis_record, had a record that exists already been a failure
create_analysis_record_once(r) ==
    /\ r.status = "200"
    /\ Has(r.body, "id") /\ Has(r.body, "name") /\ Has(r.body, "version")

\* the return value of create_analysis_record for response r: True for 200 when
\* id, name and version of the body can be printed, True for 400 with a detail
\* that says "already exists", False otherwise and for every exception
create_analysis_record(r) ==
    \/ /\ r.status = "200"
       /\ Has(r.body, "id") /\ Has(r.body, "name") /\ Has(r.body, "version")
    \/ /\ r.status = "400"
       /\ AlreadyExists(r.body)

\* main: the script starts and check_service_registration sends its request
setup_main_begin ==
    /\ setup.pc = "none"
    /\ \E t \in Tokens :
        setup' = [pc |-> "check", ADMIN_TOKEN |-> t,
                  sent |-> <<"GET /api/v1/services/connected">>,
                  responses |-> <<>>, service_registered |-> <<>>, success |-> <<>>]
    /\ UNCHANGED <<jobs, task, disk, running, resp, executor, client, registration, standalone>>

\* check_service_registration returns; main returns if it is False
setup_check_returns ==
    /\ setup.pc = "check"
    /\ \E r \in CheckResponses :
        setup' = [setup EXCEPT
                    !.responses = Append(@, r),
                    !.service_registered = <<check_service_registration(r)>>,
                    !.pc = IF check_service_registration(r) THEN "create" ELSE "returned"]
    /\ UNCHANGED <<jobs, task, disk, running, resp, executor, client, registration, standalone>>

\* create_analysis_record up to its request: `if not admin_token: return False`
setup_create_begin ==
    /\ setup.pc = "create"
    /\ IF setup.ADMIN_TOKEN \in {<<>>, <<"">>}
       THEN setup' = [setup EXCEPT !.success = <<FALSE>>, !.pc = "returned"]
       ELSE setup' = [setup EXCEPT !.sent = Append(@, "POST /api/v1/analysis/"),
                                   !.pc = "post"]
    /\ UNCHANGED <<jobs, task, disk, running, resp, executor, client, registration, standalone>>

\* create_analysis_record returns; main prints the outcome
setup_create_returns ==
    /\ setup.pc = "post"
    /\ \E r \in CreateResponses :
        setup' = [setup EXCEPT
                    !.responses = Append(@, r),
                    !.success = <<create_analysis_record(r)>>,
                    !.pc = "returned"]
    /\ UNCHANGED <<jobs, task, disk, running, resp, executor, client, registration, standalone>>

NextSetup ==
    \/ setup_main_begin
    \/ setup_check_returns
    \/ setup_create_begin
    \/ setup_create_returns

\* one run of the setup script
SpecSetup == Init /\ [][NextSetup]_vars

\* ---- one client and its job ----
\* the number of requests the observed client makes after its submission
MaxRequests == 3

\* the declared inputs, both required (get_input_files)
InputKeys == <<"file1", "file2">>

\* the client submits its job; `files` is the number of files it uploads: the
\* first declared inputs, in order, and beyond them files that are not declared
ClientSubmit ==
    /\ client = <<>>
    /\ analyze
    /\ client' = <<[op |-> "analyze", was |-> "none", files |-> task'[resp'.job_id].files]>>
    /\ UNCHANGED <<registration, scripts>>

\* the client makes a request about its job; `was` is the status the handler found
ClientAsks(handler) ==
    /\ client # <<>>
    /\ Len(client) <= MaxRequests
    /\ handler
    /\ resp'.job_id \in DOMAIN jobs
    /\ client' = Append(client, [op |-> resp'.op, was |-> jobs[resp'.job_id]["status"]])
    /\ UNCHANGED <<registration, scripts>>

NextClient ==
    \/ ClientSubmit
    \/ ClientAsks(get_status)
    \/ ClientAsks(get_results)
    \/ ClientAsks(download_file)
    \/ ClientAsks(cancel_job)
    \/ send_response
    \/ \E j \in JobIds : process_job(j)

\* the service with a single client that submits one job and follows it
SpecClient == Init /\ [][NextClient]_vars

\* ---- properties ----
Terminal == {"completed", "failed", "cancelled"}

\* the status changes of the job state machine
Transitions ==
    {<<"pending", "running">>, <<"running", "completed">>, <<"running", "failed">>,
     <<"pending", "cancelled">>, <<"running", "cancelled">>}

\* the step is request handler op answering for job id
Handled(op, id) == resp = NoResp /\ resp' # NoResp /\ resp'.op = op /\ resp'.job_id = id

\* the last response answers request op
Answered(ops) == resp # NoResp /\ resp.op \in ops

\* C1: every change of a job's status is pending->running, running->completed,
\* running->failed, pending->cancelled or running->cancelled; no step changes a
\* terminal status.
C1_StatusTransitions ==
    [][\A j \in DOMAIN jobs :
        jobs'[j]["status"] # jobs[j]["status"]
            => <<jobs[j]["status"], jobs'[j]["status"]>> \in Transitions]_vars

\* C2: Cancel on a known job whose status is completed or failed succeeds and
\* leaves the job record unchanged.
C2_CancelTerminalNoOp ==
    [][\A j \in DOMAIN jobs :
        Handled("cancel_job", j) /\ jobs[j]["status"] \in {"completed", "failed"}
            => resp'.code = 200 /\ jobs'[j] = jobs[j]]_vars

\* C3: a job cancelled while pending (its task has not taken its first step)
\* stays cancelled: the task never moves it to running, completed or failed.
C3_CancelPendingSticks ==
    [][\A j \in DOMAIN jobs :
        jobs[j]["status"] = "cancelled" /\ task[j].pc = "scheduled"
            => jobs'[j]["status"] = "cancelled"]_vars

\* C4: after a Cancel that found the job running (the task suspended on file
\* I/O), no later step of the task writes completed or failed, nor changes
\* progress or message.
C4_CancelRunningStops ==
    [][\A j \in DOMAIN jobs :
        jobs[j]["status"] = "cancelled" /\ task[j].pc \notin {"scheduled", "done"}
            => /\ jobs'[j]["status"] \notin {"completed", "failed"}
               /\ jobs'[j]["progress"] = jobs[j]["progress"]
               /\ jobs'[j]["message"] = jobs[j]["message"]]_vars

\* C5: for a known job, GetResults and download answer 400 without output data
\* whenever the status is not completed, and answer 200 only when it is completed.
C5_NotReady ==
    Answered({"get_results", "download_file"}) /\ Known(resp.job_id)
        => /\ jobs[resp.job_id]["status"] # "completed"
                => resp.code = 400 /\ resp.detail = "Job not completed" /\ resp.body = NoBody
           /\ resp.code = 200 => jobs[resp.job_id]["status"] = "completed"

C5_Witness ==
    /\ Answered({"get_results", "download_file"})
    /\ Known(resp.job_id)
    /\ jobs[resp.job_id]["status"] = "failed"
    /\ resp.code = 400

JobRequests == {"get_status", "get_results", "download_file", "cancel_job"}

\* C6 as stated: GetStatus, GetResults, download and Cancel answer 404 exactly
\* when the job id is unknown.
C6_NotFoundOnlyUnknown ==
    Answered(JobRequests) => (resp.code = 404 <=> ~Known(resp.job_id))

\* C6, amended: the four requests answer 404 "Job not found" when the job id is
\* unknown, whatever else holds, and then leave the job table unchanged; for a
\* known id GetStatus, GetResults and Cancel never answer 404, and download
\* answers 404 exactly when the job is completed and the named file is absent.
C6_NotFound ==
    /\ [](Answered(JobRequests) =>
            IF ~Known(resp.job_id)
            THEN resp.code = 404 /\ resp.detail = "Job not found"
            ELSE resp.code = 404 <=>
                    /\ resp.op = "download_file"
                    /\ jobs[resp.job_id]["status"] = "completed"
                    /\ ~OutputExists(resp.job_id, resp.filename))
    /\ [][\A id \in JobIds :
            (\E op \in JobRequests : Handled(op, id)) /\ ~Known(id) => jobs' = jobs]_vars

C6_Witness ==
    /\ Answered({"cancel_job"})
    /\ ~Known(resp.job_id)
    /\ resp.code = 404
    /\ DOMAIN jobs # {}

\* C7: output_files is populated only if status is completed, error only if
\* status is failed, and never both.
C7_ExclusiveResult ==
    \A j \in DOMAIN jobs :
        /\ Has(jobs[j], "output_files") => jobs[j]["status"] = "completed"
        /\ Has(jobs[j], "error") => jobs[j]["status"] = "failed"
        /\ ~(Has(jobs[j], "output_files") /\ Has(jobs[j], "error"))

\* C8: a job completed by the execution path holds the executor's result
\* payload, and GetResults on it returns that payload.
C8_ResultStored ==
    /\ \A j \in DOMAIN jobs :
        jobs[j]["status"] = "completed" /\ Has(jobs[j], "output_files") => Has(jobs[j], "result")
    /\ Answered({"get_results"}) /\ resp.code = 200
        => \E k \in {"result", "results"} : k \in DOMAIN resp.body

\* C9: whenever a request can be served, and in every GetStatus answer, a job
\* with status completed has output_files set and progress 1.0, and a job with
\* status failed has error set.
C9_NoHalfUpdate ==
    /\ running = {} =>
        \A j \in DOMAIN jobs :
            /\ jobs[j]["status"] = "completed"
                => Has(jobs[j], "output_files") /\ jobs[j]["progress"] = 100
            /\ jobs[j]["status"] = "failed" => Has(jobs[j], "error")
    /\ Answered({"get_status"}) /\ resp.code = 200 /\ resp.body.status = "completed"
        => resp.body.output_files # None /\ resp.body.progress = <<100>>
    /\ Answered({"get_results"}) /\ resp.code = 200
        => Has(jobs[resp.job_id], "output_files")

C9_Witness ==
    /\ Answered({"get_status"})
    /\ resp.code = 200
    /\ resp.body.status = "completed"
    /\ \E j \in DOMAIN jobs : jobs[j]["status"] = "failed"

\* C10: the progress values written to a job's record never decrease, whatever
\* fractions the executor reports, and progress is 1.0 when the job is completed.
C10_ProgressMonotone ==
    /\ [][\A j \in DOMAIN jobs : jobs'[j]["progress"] >= jobs[j]["progress"]]_vars
    /\ [](\A j \in DOMAIN jobs : jobs[j]["status"] = "completed" => jobs[j]["progress"] = 100)

\* C11: a Submit adds exactly one record, pending with progress 0 under an id
\* no job had, schedules one task for it and runs no step of it, answers
\* pending, and changes no other record or task; a task is never scheduled a
\* second time, so a job is set running by the first step of its task only.
C11_SubmitFrame ==
    /\ [][\A id \in JobIds :
            Handled("analyze", id) =>
                /\ id \notin DOMAIN jobs
                /\ DOMAIN jobs' = DOMAIN jobs \cup {id}
                /\ jobs'[id] = [status |-> "pending", progress |-> 0, message |-> "Job submitted"]
                /\ \A k \in DOMAIN jobs : jobs'[k] = jobs[k]
                /\ task[id] = NoTask /\ task'[id].pc = "scheduled"
                /\ \A k \in JobIds \ {id} : task'[k] = task[k]
                /\ running' = {} /\ disk' = disk
                /\ resp'.code = 200 /\ resp'.body.status = "pending"]_vars
    /\ [][\A j \in JobIds :
            /\ task'[j].pc = "scheduled" => task[j].pc \in {"none", "scheduled"}
            /\ (j \in DOMAIN jobs /\ jobs'[j]["status"] = "running" /\ jobs[j]["status"] # "running")
                    => task[j].pc = "scheduled" /\ task'[j].pc # "scheduled"]_vars

C11_Witness ==
    /\ Answered({"analyze"})
    /\ resp.job_id = 2
    /\ task[1].pc = "store_file"
    /\ task[2].pc = "scheduled"

\* the client's latest request, just answered, is its n-th and called op
Latest(n, op) ==
    /\ Answered({op})
    /\ Len(client) = n
    /\ client[n].op = op

\* ---- startup, registration and the periodic health check ----
\* the number of health checks sent to the orchestrator
MaxTicks == 3

\* the process has started: nothing is registered, no health check task exists
InitService ==
    /\ InitJobs
    /\ service = [startup |-> "begin", heartbeat |-> "none"]
    /\ outbox = <<>>

\* startup_event, register_with_orchestrator and periodic_health_check are
\* coroutines of the same event loop as the handlers and the job tasks: a step
\* of theirs runs only when no task holds the loop (Idle)

\* the latest request to the orchestrator gets its outcome
Outcome(o) == outbox' = [outbox EXCEPT ![Len(outbox)].outcome = o]

\* the requests of the outbox sent to url
SentTo(url) == {i \in DOMAIN outbox : outbox[i].url = url}

\* as startup_event_register, had startup_event created the health check task
\* before it registered
startup_event_register_after_task ==
    /\ Idle
    /\ service.startup = "begin"
    /\ outbox' = Append(outbox, RegisterRequest("pending"))
    /\ service' = [startup |-> "registering", heartbeat |-> "sleep"]
    /\ UNCHANGED <<jobs, task, disk, running, resp, executor, client, scripts>>

\* startup_event up to the await of client.post in register_with_orchestrator
startup_event_register ==
    /\ Idle
    /\ service.startup = "begin"
    /\ outbox' = Append(outbox, RegisterRequest("pending"))
    /\ service' = [service EXCEPT !.startup = "registering"]
    /\ UNCHANGED <<jobs, task, disk, running, resp, executor, client, scripts>>

\* as register_with_orchestrator_returns, had a failed attempt been made again
register_with_orchestrator_retries ==
    /\ Idle
    /\ service.startup = "registering"
    /\ \E o \in Outcomes :
        /\ Outcome(o)
        /\ service' = [service EXCEPT !.startup = IF o = "200" THEN "registered" ELSE "begin"]
    /\ UNCHANGED <<jobs, task, disk, running, resp, executor, client, scripts>>

\* as register_with_orchestrator_returns, had a failed registration ended startup
register_with_orchestrator_raises ==
    /\ Idle
    /\ service.startup = "registering"
    /\ \E o \in Outcomes :
        /\ Outcome(o)
        /\ service' = [service EXCEPT !.startup = IF o = "200" THEN "registered" ELSE "failed"]
    /\ UNCHANGED <<jobs, task, disk, running, resp, executor, client, scripts>>

\* the post returns a response or raises: register_with_orchestrator prints
\* and returns True or False, which startup_event does not look at
register_with_orchestrator_returns ==
    /\ Idle
    /\ service.startup = "registering"
    /\ \E o \in Outcomes : Outcome(o)
    /\ service' = [service EXCEPT !.startup = "registered"]
    /\ UNCHANGED <<jobs, task, disk, running, resp, executor, client, scripts>>

\* startup_event: asyncio.create_task(periodic_health_check()), and it returns
startup_event_create_task ==
    /\ Idle
    /\ service.startup = "registered"
    /\ service' = [startup |-> "done", heartbeat |-> "sleep"]
    /\ UNCHANGED <<jobs, task, disk, running, resp, executor, client, outbox, scripts>>

\* as periodic_health_check_post, had the health check reported on the jobs and
\* noted it on their records
periodic_health_check_post_jobs ==
    /\ Idle
    /\ service.heartbeat = "sleep"
    /\ Cardinality(SentTo(HealthCheckRequest("pending").url)) < MaxTicks
    /\ outbox' = Append(outbox, HealthCheckRequest("pending"))
    /\ service' = [service EXCEPT !.heartbeat = "post"]
    /\ jobs' = [j \in DOMAIN jobs |-> Set(jobs[j], "message", "reported")]
    /\ UNCHANGED <<task, disk, running, resp, executor, client, scripts>>

\* periodic_health_check: the sleep of 60 s is over, the health check is posted
periodic_health_check_post ==
    /\ Idle
    /\ service.heartbeat = "sleep"
    /\ Cardinality(SentTo(HealthCheckRequest("pending").url)) < MaxTicks
    /\ outbox' = Append(outbox, HealthCheckRequest("pending"))
    /\ service' = [service EXCEPT !.heartbeat = "post"]
    /\ UNCHANGED <<jobs, task, disk, running, resp, executor, client, scripts>>

\* as periodic_health_check_returns, had the try been around the loop: an
\* exception of the post ends the task
periodic_health_check_breaks ==
    /\ Idle
    /\ service.heartbeat = "post"
    /\ \E o \in Outcomes :
        /\ Outcome(o)
        /\ service' = [service EXCEPT !.heartbeat = IF o = "error" THEN "ended" ELSE "sleep"]
    /\ UNCHANGED <<jobs, task, disk, running, resp, executor, client, scripts>>

\* the post returns a response or raises, and the loop goes back to its sleep
periodic_health_check_returns ==
    /\ Idle
    /\ service.heartbeat = "post"
    /\ \E o \in Outcomes : Outcome(o)
    /\ service' = [service EXCEPT !.heartbeat = "sleep"]
    /\ UNCHANGED <<jobs, task, disk, running, resp, executor, client, scripts>>

\* GET /health, served once startup has completed
health_check ==
    /\ service.startup = "done"
    /\ Idle
    /\ resp' = Ok("health_check", None, "",
                  [kind |-> "health", status |-> "healthy", service |-> SERVICE_NAME])
    /\ UNCHANGED <<jobs, task, disk, running, executor, client, registration, scripts>>

NextService ==
    \/ startup_event_register
    \/ register_with_orchestrator_returns
    \/ startup_event_create_task
    \/ periodic_health_check_post
    \/ periodic_health_check_returns
    \/ health_check
    \/ send_response

\* the service from process start, with no job submitted
SpecService == InitService /\ [][NextService]_vars

\* the event loop runs startup_event and the health check task whenever they
\* are ready, every sleep ends and every post returns or raises (its timeout)
SpecServiceLive ==
    /\ SpecService
    /\ WF_vars(send_response)
    /\ WF_vars(startup_event_register)
    /\ WF_vars(register_with_orchestrator_returns)
    /\ WF_vars(startup_event_create_task)
    /\ SF_vars(periodic_health_check_post)
    /\ SF_vars(periodic_health_check_returns)

\* requests are served once startup_event has returned
Serving == service.startup = "done"

NextSystem ==
    \/ startup_event_register
    \/ register_with_orchestrator_returns
    \/ startup_event_create_task
    \/ periodic_health_check_post
    \/ periodic_health_check_returns
    \/ health_check
    \/ Serving /\ FirstSubmit /\ UNCHANGED <<client, registration, scripts>>
    \/ Serving /\ get_status /\ UNCHANGED <<client, registration, scripts>>
    \/ Serving /\ get_results /\ UNCHANGED <<client, registration, scripts>>
    \/ Serving /\ download_file /\ UNCHANGED <<client, registration, scripts>>
    \/ Serving /\ cancel_job /\ UNCHANGED <<client, registration, scripts>>
    \/ send_response
    \/ \E j \in JobIds : process_job(j)

\* the whole service from process start: startup, the health check task, and
\* the traffic of one job
SpecSystem == InitService /\ [][NextSystem]_vars

\* the event loop runs startup_event to its end, as it runs every ready task,
\* and the registration request returns or raises (its timeout of 10 s)
SpecSystemLive ==
    /\ SpecSystem
    /\ WF_vars(startup_event_register)
    /\ WF_vars(register_with_orchestrator_returns)
    /\ WF_vars(startup_event_create_task)

\* C12 as stated: the first GetStatus the client issues after its Submit
\* reports pending or running, whatever the task has done in between.
C12_FirstStatusInProgress ==
    Latest(2, "get_status") => resp.body.status \in {"pending", "running"}

\* C12: the first GetStatus the client issues after its Submit finds the job and
\* reports the status the task has brought it to: pending if the task has not
\* started, running if it is suspended in storing the input files, and
\* completed or failed if it has run to its end in between.
C12_FirstStatusCurrent ==
    Latest(2, "get_status") =>
        LET id == resp.job_id
            status == resp.body.status
        IN  /\ resp.code = 200
            /\ status = jobs[id]["status"]
            /\ status = "pending" <=> task[id].pc = "scheduled"
            /\ status = "running" <=> task[id].pc = "store_file"
            /\ status \in {"completed", "failed"} <=> task[id].pc = "done"

C12_Witness ==
    /\ Latest(2, "get_status")
    /\ resp.body.status = "completed"
    /\ resp.body.progress = <<100>>

\* C13: when a step of the execution path has raised, the task ends with the
\* job's status failed and a non-empty error description on the record, and it
\* has changed no other job's record or task.
C13_FailureRecorded ==
    [][\A j \in JobIds :
        (task[j].pc = "set_failed_message" /\ task'[j].pc = "done") =>
            /\ jobs'[j]["status"] = "failed"
            /\ Has(jobs'[j], "error")
            /\ jobs'[j]["error"] # ""
            /\ \A k \in JobIds \ {j} :
                    /\ task'[k] = task[k]
                    /\ k \in DOMAIN jobs => jobs'[k] = jobs[k]]_vars

\* C14: under fair scheduling every submitted job comes to a terminal status
\* (completed, failed or cancelled) and from some point on keeps one; no job
\* stays pending or running forever.
C14_Terminates ==
    \A j \in JobIds : <>[](Known(j) => jobs[j]["status"] \in Terminal)

C14_Witness ==
    \E j, k \in JobIds :
        /\ Known(j) /\ Known(k)
        /\ task[j].pc = "done" /\ jobs[j]["status"] = "failed"
        /\ task[k].pc = "done" /\ jobs[k]["status"] = "completed"

\* the client has submitted its job with n files and has not cancelled it
SubmittedUncancelled(n) ==
    /\ client # <<>>
    /\ client[1].files = n
    /\ \A i \in DOMAIN client : client[i].op # "cancel_job"

\* C15: with the repository's analysis callable, a job submitted with both
\* required input files and never cancelled, whose files were stored, ends
\* completed with both declared outputs in output_files.
C15_ScenarioA ==
    \A id \in DOMAIN jobs :
        ( /\ executor = "repository"
          /\ SubmittedUncancelled(Len(InputKeys))
          /\ task[id].pc = "done"
          /\ GetDefault(jobs[id], "error", "") \notin StoreErrors )
        => /\ jobs[id]["status"] = "completed"
           /\ Get(jobs[id], "output_files") = <<OutputKeys>>

\* the declared inputs that a submission of n files lacks
MissingInputs(n) == {InputKeys[i] \o ".csv" : i \in (n + 1)..Len(InputKeys)}

\* C16: a job submitted without one of the required input files, and not
\* cancelled, never gets to the analysis callable and never to completed, and
\* once its files are stored it ends failed with an error naming a missing file.
C16_ScenarioB ==
    \A id \in DOMAIN jobs :
        (\E n \in 1..(Len(InputKeys) - 1) : SubmittedUncancelled(n)) =>
            /\ task[id].pc # "executing"
            /\ jobs[id]["status"] # "completed"
            /\ (task[id].pc = "done" /\ GetDefault(jobs[id], "error", "") \notin StoreErrors)
                    => /\ jobs[id]["status"] = "failed"
                       /\ \E f \in MissingInputs(client[1].files) :
                              Get(jobs[id], "error") = <<"Required file '" \o f \o "' not found">>

\* C17: two submissions get distinct job ids; a step changes at most one record
\* of the job table, and a record changes only by a step of that job's own task
\* or by a Cancel of that job (or is new, by a Submit under an id no job had).
C17_NoCrossContamination ==
    [][/\ \A j, k \in DOMAIN jobs : (jobs'[j] # jobs[j] /\ jobs'[k] # jobs[k]) => j = k
       /\ \A j \in DOMAIN jobs :
            jobs'[j] # jobs[j] =>
                \/ task[j].pc \notin {"none", "done"} /\ task'[j] # task[j]
                \/ Handled("cancel_job", j)
       /\ \A j \in JobIds :
            (task[j].pc # "none" /\ task'[j] # task[j]) =>
                \A k \in DOMAIN jobs \ {j} : jobs'[k] = jobs[k]
       /\ \A id \in JobIds :
            (Handled("analyze", id) \/ Handled("cancel_job", id)) =>
                /\ DOMAIN jobs \subseteq DOMAIN jobs'
                /\ \A k \in DOMAIN jobs \ {id} : jobs'[k] = jobs[k]
                /\ Handled("analyze", id) => id \notin DOMAIN jobs]_vars

C17_Witness ==
    \E j, k \in DOMAIN jobs :
        /\ task[j].pc = "done" /\ jobs[j]["status"] = "completed" /\ jobs[j]["progress"] = 100
        /\ task[k].pc = "store_file" /\ jobs[k]["status"] = "running" /\ jobs[k]["progress"] = 10
        /\ ~Has(jobs[k], "output_files")

\* C18: no step removes a record from the job table, and a job that has failed
\* stays failed with its error string, whatever operation comes next, so that
\* every later GetStatus reports failed.
C18_FailedStays ==
    [][/\ DOMAIN jobs \subseteq DOMAIN jobs'
       /\ \A j \in DOMAIN jobs :
            (jobs[j]["status"] = "failed" /\ Has(jobs[j], "error")) =>
                /\ jobs'[j]["status"] = "failed"
                /\ Get(jobs'[j], "error") = Get(jobs[j], "error")
       /\ \A j \in DOMAIN jobs :
            (Handled("get_status", j) /\ jobs[j]["status"] = "failed") =>
                resp'.code = 200 /\ resp'.body.status = "failed"]_vars

\* the client's Cancel calls so far, by their place among its requests
CancelCalls == {i \in DOMAIN client : client[i].op = "cancel_job"}

\* C19: when the client's first Cancel found its job pending or running, that
\* Cancel and every later Cancel of the job, whatever the task did in between,
\* is answered without error, and on its return the job's status is cancelled.
C19_CancelTwice ==
    ( /\ Answered({"cancel_job"})
      /\ \A i \in CancelCalls :
            (\A k \in CancelCalls : i <= k) => client[i].was \in {"pending", "running"} )
    => /\ resp.code = 200
       /\ resp.body = [kind |-> "message", message |-> "Job cancelled"]
       /\ jobs[resp.job_id]["status"] = "cancelled"

C19_Witness ==
    /\ Latest(3, "cancel_job")
    /\ client[2].op = "cancel_job" /\ client[2].was = "pending"
    /\ client[3].was = "running"
    /\ jobs[resp.job_id]["status"] = "cancelled"

\* C20: at most one registration request is ever sent; from the first step of
\* startup on it is exactly one, the first request to the orchestrator; startup
\* completes after it whatever its outcome (200, another status, an error), and
\* a caller of the service is answered healthy whatever the outcome was.
C20_RegistersOnce ==
    LET sent == SentTo(RegisterRequest("pending").url)
    IN  /\ sent = IF service.startup = "begin" THEN {} ELSE {1}
        /\ service.startup \in {"registered", "done"} <=>
                (sent # {} /\ outbox[1].outcome \in Outcomes)
        /\ service.heartbeat # "none" <=> service.startup = "done"
        /\ Answered({"health_check"}) => resp.code = 200 /\ resp.body.status = "healthy"

C20_Witness ==
    /\ service.startup = "done"
    /\ Len(outbox) > 2
    /\ outbox[1] = RegisterRequest("500")
    /\ outbox[2].outcome = "error"
    /\ Answered({"health_check"})

\* C21: whatever the outcome of the registration attempt (200, another status,
\* an error), startup completes after it; once it has, the health check task
\* exists, GET /health and a submission can be served whenever the event loop
\* is free, GET /health is answered 200 healthy and the submission 200 pending.
C21_ScenarioD ==
    /\ \A o \in Outcomes :
            (outbox # <<>> /\ outbox[1] = RegisterRequest(o)) ~> Serving
    /\ [](Serving =>
            /\ service.heartbeat \in {"sleep", "post"}
            /\ Idle => ENABLED health_check
            /\ (Idle /\ jobs = <<>>) => ENABLED FirstSubmit
            /\ Answered({"health_check"}) => resp.code = 200 /\ resp.body.status = "healthy"
            /\ Answered({"analyze"}) => resp.code = 200 /\ resp.body.status = "pending")

C21_Witness ==
    /\ Serving
    /\ outbox[1] = RegisterRequest("error")
    /\ Answered({"analyze"})
    /\ resp.job_id \in DOMAIN jobs

\* the health checks sent so far, by their place in the outbox
Ticks == SentTo(HealthCheckRequest("pending").url)

\* C22: a health check never ends the loop: after a health check that got a
\* status other than 200 or an error, the task is back in its sleep and the
\* next health check is sent, for every sequence of failures (up to MaxTicks).
C22_HeartbeatGoesOn ==
    /\ [](Serving => service.heartbeat \in {"sleep", "post"})
    /\ service.heartbeat = "post"
            ~> (service.heartbeat = "sleep" /\ outbox[Len(outbox)].outcome \in Outcomes)
    /\ \A n \in 1..(MaxTicks - 1) : \A o \in Outcomes \ {"200"} :
            (Cardinality(Ticks) = n /\ outbox[Len(outbox)].outcome = o)
                ~> (Cardinality(Ticks) = n + 1)

C22_Witness ==
    /\ Cardinality(Ticks) = MaxTicks
    /\ service.heartbeat = "sleep"
    /\ \A i \in Ticks : outbox[i].outcome \in {"500", "error"}
    /\ \E i \in Ticks : outbox[i].outcome = "error"

\* C23: a step of startup, registration or the health check task changes
\* nothing of the job table, the tasks, the output files or a response; and
\* once startup has completed, whatever the health check task is doing and
\* whatever the orchestrator answered, every request can be served when the
\* event loop is free and every unfinished task can take its next step when
\* it has the loop.
C23_Independent ==
    /\ [][(service' # service \/ outbox' # outbox)
            => UNCHANGED <<jobs, task, disk, running, resp, executor>>]_vars
    /\ []((Serving /\ Idle) =>
            /\ ENABLED get_status /\ ENABLED get_results /\ ENABLED cancel_job
            /\ jobs = <<>> => ENABLED FirstSubmit)
    /\ [](\A j \in JobIds :
            ( /\ task[j].pc \notin {"none", "done"}
              /\ resp = NoResp
              /\ running = IF task[j].pc \in AwaitPoints THEN {} ELSE {j} )
            => ENABLED process_job(j))

C23_Witness ==
    /\ service.heartbeat = "post"
    /\ \E i \in Ticks : outbox[i].outcome = "error"
    /\ outbox[1].outcome = "500"
    /\ Answered({"get_status"})
    /\ resp.code = 200 /\ resp.body.status = "running"

\* C24: while the analysis callable of a job runs, between two of its progress
\* reports, a GetStatus request can be served (and so can see the progress the
\* hook has written).
C24_StatusServedDuringAnalysis ==
    \A j \in JobIds :
        (task[j].pc = "executing" /\ resp = NoResp) => ENABLED get_status

\* C25: whatever fraction the callable passes to the hook, the job's progress is
\* within [0.0, 1.0] (here 0..100) in every reachable state, and within
\* [0.3, 0.9] while the callable runs.
C25_ProgressInRange ==
    \A j \in DOMAIN jobs :
        /\ jobs[j]["progress"] \in 0..100
        /\ task[j].pc = "executing" => jobs[j]["progress"] \in 30..90

\* the place of output key k in the declaration
Declared(k) == CHOOSE i \in DOMAIN OutputKeys : OutputKeys[i] = k

\* C26: output_files of a job lists exactly the declared outputs whose file
\* exists, each once, in declaration order; the extraction never fails the job
\* for an absent output, also a required one, so output_files may be empty.
C26_OutputsExtracted ==
    /\ [](\A j \in DOMAIN jobs :
            Has(jobs[j], "output_files") =>
                LET listed == jobs[j]["output_files"]
                IN  /\ Range(listed) = disk[j]
                    /\ Len(listed) = Cardinality(disk[j])
                    /\ \A a, b \in DOMAIN listed :
                            a < b => Declared(listed[a]) < Declared(listed[b]))
    /\ [][\A j \in JobIds :
            (task[j].pc = "extract_scan" /\ task'[j] # task[j]) =>
                /\ task'[j].pc = "extract_end"
                /\ Range(task'[j].output_files) = disk[j]]_vars

C26_Witness ==
    \E j \in DOMAIN jobs :
        /\ jobs[j]["status"] = "completed"
        /\ Get(jobs[j], "output_files") = <<<<>>>>
        /\ \A k \in Range(OutputKeys) : get_output_files[k].required

\* C27: every request the service sends to the orchestrator, the registration
\* and each health check, carries the registration record SERVICE_INFO, the
\* same at every health check as at registration.
C27_RecordResent ==
    \A i \in DOMAIN outbox :
        /\ outbox[i].json = <<SERVICE_INFO>>
        /\ outbox[i].json = outbox[1].json

\* C28: the health check task is created by the last step of startup, after the
\* registration attempt got its outcome, and only once; it starts in its sleep
\* and sends each health check out of a sleep; so no health check is sent
\* before the registration attempt is over, and at most one is in flight.
C28_HeartbeatAfterRegistration ==
    /\ [](service.heartbeat # "none" => (Serving /\ outbox[1].outcome \in Outcomes))
    /\ [](Ticks # {} => (outbox[1] \in {RegisterRequest(o) : o \in Outcomes} /\ 1 \notin Ticks))
    /\ []({i \in Ticks : outbox[i].outcome = "pending"} =
                IF service.heartbeat = "post" THEN {Len(outbox)} ELSE {})
    /\ [][/\ Ticks' # Ticks => (service.heartbeat = "sleep" /\ service'.heartbeat = "post")
           /\ ((service.heartbeat = "none" /\ service'.heartbeat # "none")
                => (service.startup = "registered" /\ service' = ServiceUp /\ outbox' = outbox))
           /\ (Serving => (service'.startup = "done" /\ service'.heartbeat # "none"))]_vars

C28_Witness ==
    /\ service.heartbeat = "post"
    /\ outbox[1] = RegisterRequest("500")
    /\ Cardinality(Ticks) > 1

\* the steps of the standalone workflow, in order
Workflow == <<"receive_files", "execute_analysis", "extract_outputs">>

\* C29: main ends by returning a result, completed or failed, never by an
\* exception; its steps begin in the order receive, execute, extract; the
\* result is completed only if all three ran and the analysis returned
\* "completed"; failed comes with an error, and after a job data response
\* other than 200 no further step runs; an input file answered with a status
\* other than 200 is passed over and the workflow goes on.
C29_MainReturns ==
    /\ [](standalone.pc # "none" =>
            /\ standalone.pc \in {"job_data", "download", "execute", "check", "extract",
                                   "except", "returned"}
            /\ standalone.steps = SubSeq(Workflow, 1, Len(standalone.steps))
            /\ standalone.job_data \notin {"pending", "200"} =>
                    /\ standalone.pc \in {"except", "returned"}
                    /\ standalone.steps = <<"receive_files">>
            /\ standalone.pc = "returned" =>
                    /\ standalone.result.status \in {"completed", "failed"}
                    /\ standalone.result.status = "completed" =>
                            (standalone.steps = Workflow /\ standalone.status = "completed"
                                /\ standalone.job_data = "200")
                    /\ standalone.result.status = "failed" =>
                            (standalone.result.error = standalone.error
                                /\ standalone.steps # Workflow))
    /\ [][(standalone.pc = "download" /\ standalone' # standalone) =>
                LET o == standalone'.downloads[Len(standalone'.downloads)]
                IN  /\ Len(standalone'.downloads) = Len(standalone.downloads) + 1
                    /\ standalone'.pc = IF o = "error" THEN "except"
                                        ELSE IF standalone.files = 1 THEN "execute"
                                        ELSE "download"]_vars
    /\ [][(standalone.pc = "except" /\ standalone' # standalone) =>
                (standalone'.pc = "returned" /\ standalone'.steps = standalone.steps)]_vars

C29_Witness ==
    /\ standalone.pc = "returned"
    /\ standalone.result.status = "completed"
    /\ \E i \in DOMAIN standalone.downloads : standalone.downloads[i] = "500"

\* the setup script has sent the request that creates the analysis record
Posted == \E i \in DOMAIN setup.sent : setup.sent[i] = "POST /api/v1/analysis/"

\* the setup script sends the creation request only after the registry check
\* answered 200 with this service in its list, and only with ADMIN_TOKEN set;
\* after a check that failed or raised, and without a token, it sends none
CreatesOnlyRegistered ==
    setup.pc # "none" =>
        /\ setup.sent[1] = "GET /api/v1/services/connected"
        /\ Posted =>
                /\ setup.service_registered = <<TRUE>>
                /\ setup.responses[1].status = "200"
                /\ \E i \in DOMAIN setup.responses[1].services :
                        setup.responses[1].services[i]["service_name"] = SERVICE_NAME
                /\ setup.ADMIN_TOKEN \notin {<<>>, <<"">>}
        /\ (setup.pc = "returned" /\ setup.service_registered # <<TRUE>>) =>
                (~Posted /\ setup.success = <<>>)
        /\ (setup.pc = "returned" /\ setup.ADMIN_TOKEN = <<>>) => ~Posted

\* C30 as stated: besides the above, create_analysis_record reports success
\* for a 200 response and for a 400 response whose detail says the record
\* already exists.
C30_SetupSuccessOn200 ==
    /\ CreatesOnlyRegistered
    /\ (setup.pc = "returned" /\ Posted) =>
            LET r == setup.responses[2]
            IN  (r.status = "200" \/ (r.status = "400" /\ AlreadyExists(r.body)))
                    => setup.success = <<TRUE>>

\* C30: the creation request is sent only after the registry check found this
\* service and only with ADMIN_TOKEN set; create_analysis_record reports
\* success exactly for a 200 response whose body has id, name and version and
\* for a 400 response whose detail says the record already exists.
C30_SetupIdempotent ==
    /\ CreatesOnlyRegistered
    /\ (setup.pc = "returned" /\ Posted) =>
            LET r == setup.responses[2]
            IN  setup.success = <<TRUE>> <=>
                    \/ r.status = "200" /\ {"id", "name", "version"} \subseteq DOMAIN r.body
                    \/ r.status = "400" /\ Get(r.body, "detail") = <<"Analysis already exists">>

C30_Witness ==
    /\ setup.pc = "returned"
    /\ Posted
    /\ setup.responses[2].status = "400"
    /\ setup.success = <<TRUE>>
    /\ Len(setup.responses[1].services) > 1
    /\ setup.responses[1].services[1]["service_name"] # SERVICE_NAME

====
